---- MODULE Spec2Model ----
(***************************************************************************)
(* The Map class of src/Maps.py: a dictionary of Location objects, a       *)
(* dictionary of neighbour lists, the three operations that build them     *)
(* (add_location, add_neighbours, connect_nearest_loc), check_invariants   *)
(* and the two route searches: dijkstra, whose edge weights are the        *)
(* geodesic distances between the coordinates of the two end points, and   *)
(* bfs.  The click-to-route session of src/app.py is modelled on top of    *)
(* the map and of dijkstra.                                                *)
(*                                                                         *)
(* A Python dict is a function together with the insertion order of its    *)
(* keys; a Python list is a sequence; a raised exception is recorded by    *)
(* its class name.  Distances are whole metres.                            *)
(***************************************************************************)
EXTENDS Integers, Sequences, FiniteSets, TLC

VARIABLES
    locations,    \* Map.locations: name -> Location
    keyOrder,     \* insertion order of the keys of Map.locations
    neighbours,   \* Map.neighbours: name -> list of names
    last,         \* the last Map call: [op, raised, changed]
    pc,           \* position inside a search: "idle"; "loop" or "walk" in
                  \* dijkstra; "bfs_loop" or "bfs_walk" in bfs
    start,        \* dijkstra's argument start
    destination,  \* dijkstra's argument destination
    graph,        \* dijkstra's local graph: name -> (neighbour -> weight)
    distances,    \* dijkstra's local distances: name -> best known distance
    parent,       \* the search's local parent: name -> name or None
    queue,        \* dijkstra's heap of <<distance, name>> entries; bfs's
                  \* deque of names
    current,      \* the cursor of the parent walk that rebuilds the path
    path,         \* the path being rebuilt, destination first
    popped,       \* the entries popped so far in this call, in order, each
                  \* with what the loop did with it
    result,       \* what the last search call returned or raised
    lastK,        \* the argument k of the last call, if it was
                  \* connect_nearest_loc, else None
    root,         \* bfs's argument root
    visited,      \* bfs's local visited
    enqueued,     \* the names bfs has appended to its queue, in order
    earlier,      \* when the running or last call repeats the call before
                  \* it, what that call returned, else no result
    start_click,  \* st.session_state.start_click
    dest_click,   \* st.session_state.dest_click
    start_node,   \* st.session_state.start_node
    dest_node,    \* st.session_state.dest_node
    route_path,   \* st.session_state.route_path
    route_geo_m,  \* st.session_state.route_geo_m
    last_click_sig, \* st.session_state.last_click_sig
    handler       \* "compute" while the Compute handler waits for dijkstra,
                  \* else "ready"

mapVars == <<locations, keyOrder, neighbours>>
bfsVars == <<root, visited, enqueued>>
searchVars == <<pc, start, destination, graph, distances, parent, queue,
                current, path, popped, result, root, visited, enqueued, earlier>>
appVars == <<start_click, dest_click, start_node, dest_node, route_path,
             route_geo_m, last_click_sig, handler>>
vars == <<locations, keyOrder, neighbours, last, pc, start, destination,
          graph, distances, parent, queue, current, path, popped, result,
          lastK, root, visited, enqueued, earlier, start_click, dest_click,
          start_node, dest_node, route_path, route_geo_m, last_click_sig,
          handler>>

-----------------------------------------------------------------------------
(* Bounds of the model. *)

\* Calls of add_neighbours that add an entry, and calls of
\* connect_nearest_loc, are made only while the neighbour lists hold fewer
\* entries than this.
MaxLinks == 2
\* connect_nearest_loc is called with k in -1 .. MaxK.
MaxK == 3
\* The maps a route search starts from hold at most this many edges.
MaxEdges == 5

-----------------------------------------------------------------------------
(* Values. *)

Names == {"N1", "N2", "N3", "N4"}

\* The names a route is asked for: "N5" is never the name of a location.
QueryNames == Names \cup {"N5"}

\* Python compares the names inside heap entries as strings.
NameRank(n) ==
    CASE n = "N1" -> 1 [] n = "N2" -> 2 [] n = "N3" -> 3 [] n = "N4" -> 4
      [] n = "N5" -> 5

None == "None"

Infinity == 99999999

\* None in a field that otherwise holds a tuple or a list.
NoneSeq == <<>>
\* None in a field that otherwise holds a number of metres.
NoneNumber == -1

\* The value of result while no call has returned or raised.
NoResult == [kind |-> "none", path |-> <<>>, cost |-> 0]

Location(name, latitude, longitude) ==
    [cls |-> "Location", name |-> name, lat |-> latitude, long |-> longitude]

\* The Location objects the callers pass: the corners of the one-degree
\* square at the origin, and a second N3 that lies on top of N2.
LocationPool ==
    { Location("N1", 0, 0), Location("N2", 0, 1), Location("N3", 1, 1),
      Location("N4", 1, 0), Location("N3", 0, 1) }

\* An argument that is no Location: the bare name, as Sample_Data passes to bfs.
BareName == [cls |-> "str", name |-> "N1", lat |-> 0, long |-> 0]

Objects == LocationPool \cup {BareName}

\* add_neighbours reads only the names of its arguments: one Location per
\* name is passed, or the bare name.
NeighbourArgs ==
    { Location("N1", 0, 0), Location("N2", 0, 1), Location("N3", 1, 1),
      Location("N4", 1, 0), BareName }

IsLocation(x) == x.cls = "Location"

\* geodesic(coord_1, coord_2).meters on the WGS-84 ellipsoid, tabulated for
\* the four corners of the square and rounded to metres.
GeodesicMeters(lat1, long1, lat2, long2) ==
    CASE lat1 = lat2 /\ long1 = long2 -> 0
      [] lat1 = lat2 /\ long1 # long2 -> IF lat1 = 0 THEN 111319 ELSE 111303
      [] lat1 # lat2 /\ long1 = long2 -> 110574
      [] OTHER -> 156900

calculate_distance(location1, location2) ==
    GeodesicMeters(location1.lat, location1.long, location2.lat, location2.long)

-----------------------------------------------------------------------------
(* Dictionaries and lists. *)

DictPut(d, k, v) == [x \in DOMAIN d \cup {k} |-> IF x = k THEN v ELSE d[x]]

EmptyDict == [x \in {} |-> None]

InList(x, s) == \E i \in 1..Len(s) : s[i] = x

Count(x, s) == Cardinality({i \in 1..Len(s) : s[i] = x})

RECURSIVE Reverse(_)
Reverse(s) == IF s = <<>> THEN <<>> ELSE Append(Reverse(Tail(s)), Head(s))

RemoveAt(s, i) == SubSeq(s, 1, i - 1) \o SubSeq(s, i + 1, Len(s))

Max(a, b) == IF a >= b THEN a ELSE b
Min(a, b) == IF a <= b THEN a ELSE b

-----------------------------------------------------------------------------
(* The Map operations, as functions of the map M = [locations, keyOrder,   *)
(* neighbours].                                                            *)

EmptyMap == [locations |-> EmptyDict, keyOrder |-> <<>>, neighbours |-> EmptyDict]

\* A bug that resets the neighbour list of a node that is added again.
add_location_reset(M, location) ==
    IF IsLocation(location)
    THEN [locations  |-> DictPut(M.locations, location.name, location),
          keyOrder   |-> IF location.name \in DOMAIN M.locations
                         THEN M.keyOrder
                         ELSE Append(M.keyOrder, location.name),
          neighbours |-> DictPut(M.neighbours, location.name, <<>>)]
    ELSE M

add_location(M, location) ==
    IF IsLocation(location)
    THEN [locations  |-> DictPut(M.locations, location.name, location),
          keyOrder   |-> IF location.name \in DOMAIN M.locations
                         THEN M.keyOrder
                         ELSE Append(M.keyOrder, location.name),
          neighbours |-> IF location.name \notin DOMAIN M.neighbours
                         THEN DictPut(M.neighbours, location.name, <<>>)
                         ELSE M.neighbours]
    ELSE M

\* A bug that writes the first list only and leaves out the mirror entry.
add_neighbours_oneway(M, location1, location2) ==
    IF ~(IsLocation(location1) /\ IsLocation(location2))
    THEN [map |-> M, raised |-> "ValueError"]
    ELSE LET name1 == location1.name
             name2 == location2.name
         IN  IF name1 \notin DOMAIN M.neighbours \/ name2 \notin DOMAIN M.neighbours
             THEN [map |-> M, raised |-> "ValueError"]
             ELSE LET n1 == IF ~InList(name2, M.neighbours[name1])
                            THEN DictPut(M.neighbours, name1,
                                         Append(M.neighbours[name1], name2))
                            ELSE M.neighbours
                  IN  [map |-> [M EXCEPT !.neighbours = n1], raised |-> "none"]

\* A bug that appends without looking for the name in the list.
add_neighbours_dup(M, location1, location2) ==
    IF ~(IsLocation(location1) /\ IsLocation(location2))
    THEN [map |-> M, raised |-> "ValueError"]
    ELSE LET name1 == location1.name
             name2 == location2.name
         IN  IF name1 \notin DOMAIN M.neighbours \/ name2 \notin DOMAIN M.neighbours
             THEN [map |-> M, raised |-> "ValueError"]
             ELSE LET n1 == DictPut(M.neighbours, name1,
                                    Append(M.neighbours[name1], name2))
                      n2 == DictPut(n1, name2, Append(n1[name2], name1))
                  IN  [map |-> [M EXCEPT !.neighbours = n2], raised |-> "none"]

\* A bug that creates the missing end points instead of refusing them.
add_neighbours_create(M, location1, location2) ==
    IF ~(IsLocation(location1) /\ IsLocation(location2))
    THEN [map |-> M, raised |-> "ValueError"]
    ELSE LET name1 == location1.name
             name2 == location2.name
             n0 == IF name1 \in DOMAIN M.neighbours
                   THEN M.neighbours ELSE DictPut(M.neighbours, name1, <<>>)
             n00 == IF name2 \in DOMAIN n0 THEN n0 ELSE DictPut(n0, name2, <<>>)
             n1 == IF ~InList(name2, n00[name1])
                   THEN DictPut(n00, name1, Append(n00[name1], name2))
                   ELSE n00
             n2 == IF ~InList(name1, n1[name2])
                   THEN DictPut(n1, name2, Append(n1[name2], name1))
                   ELSE n1
         IN  [map |-> [M EXCEPT !.neighbours = n2], raised |-> "none"]

add_neighbours(M, location1, location2) ==
    IF ~(IsLocation(location1) /\ IsLocation(location2))
    THEN [map |-> M, raised |-> "ValueError"]
    ELSE LET name1 == location1.name
             name2 == location2.name
         IN  IF name1 \notin DOMAIN M.neighbours \/ name2 \notin DOMAIN M.neighbours
             THEN [map |-> M, raised |-> "ValueError"]
             ELSE LET n1 == IF ~InList(name2, M.neighbours[name1])
                            THEN DictPut(M.neighbours, name1,
                                         Append(M.neighbours[name1], name2))
                            ELSE M.neighbours
                      n2 == IF ~InList(name1, n1[name2])
                            THEN DictPut(n1, name2, Append(n1[name2], name1))
                            ELSE n1
                  IN  [map |-> [M EXCEPT !.neighbours = n2], raised |-> "none"]

\* A bug that leaves the location itself among its own candidates.
RECURSIVE DistsFrom_self(_, _, _)
DistsFrom_self(M, name, names) ==
    IF names = <<>> THEN <<>>
    ELSE <<<<calculate_distance(M.locations[name], M.locations[Head(names)]),
             Head(names)>>>> \o DistsFrom_self(M, name, Tail(names))

\* dists of connect_nearest_loc: <<distance, other_name>> for every other name.
RECURSIVE DistsFrom(_, _, _)
DistsFrom(M, name, names) ==
    IF names = <<>> THEN <<>>
    ELSE LET rest == DistsFrom(M, name, Tail(names))
         IN  IF Head(names) = name THEN rest
             ELSE <<<<calculate_distance(M.locations[name], M.locations[Head(names)]),
                      Head(names)>>>> \o rest

\* list.sort(key = distance): stable, so equal distances keep their order.
RECURSIVE SortByDistance(_)
SortByDistance(dists) ==
    IF dists = <<>> THEN <<>>
    ELSE LET i == CHOOSE i \in 1..Len(dists) :
                      /\ \A j \in 1..Len(dists) : dists[i][1] <= dists[j][1]
                      /\ \A j \in 1..(i - 1) : dists[j][1] > dists[i][1]
         IN  <<dists[i]>> \o SortByDistance(RemoveAt(dists, i))

\* The inner loop of connect_nearest_loc: add_neighbours for each of nearest.
RECURSIVE ConnectTo(_, _, _)
ConnectTo(R, name, nearest) ==
    IF nearest = <<>> \/ R.raised # "none" THEN R
    ELSE ConnectTo(add_neighbours(R.map, R.map.locations[name],
                                  R.map.locations[Head(nearest)[2]]),
                   name, Tail(nearest))

\* The outer loop of connect_nearest_loc over names, k already clamped.
RECURSIVE ConnectAll(_, _, _, _)
ConnectAll(R, allNames, todo, k) ==
    IF todo = <<>> \/ R.raised # "none" THEN R
    ELSE LET dists == SortByDistance(DistsFrom(R.map, Head(todo), allNames))
             nearest == SubSeq(dists, 1, k)
         IN  ConnectAll(ConnectTo(R, Head(todo), nearest), allNames, Tail(todo), k)

connect_nearest_loc(M, k) ==
    LET names == M.keyOrder
        kk == Max(0, Min(k, Len(names) - 1))
    IN  ConnectAll([map |-> M, raised |-> "none"], names, names, kk)

-----------------------------------------------------------------------------
(* The map held in the variables, and the calls that change it.            *)

\* check_invariants, lines 107-120: the class name of the exception the
\* first failing test raises, or "none".
check_invariants(M) ==
    LET bad == {i \in 1..Len(M.keyOrder) :
                   \/ ~IsLocation(M.locations[M.keyOrder[i]])
                   \/ M.keyOrder[i] # M.locations[M.keyOrder[i]].name}
    IN  IF bad # {}
        THEN LET i == CHOOSE i \in bad : \A j \in bad : i <= j
             IN  IF ~IsLocation(M.locations[M.keyOrder[i]])
                 THEN "TypeError" ELSE "ValueError"
        ELSE IF \E loc \in DOMAIN M.neighbours :
                   \/ loc \notin DOMAIN M.locations
                   \/ \E k \in 1..Len(M.neighbours[loc]) :
                         LET loc2 == M.neighbours[loc][k]
                         IN  \/ loc2 \notin DOMAIN M.neighbours
                             \/ ~InList(loc, M.neighbours[loc2])
             THEN "ValueError"
             ELSE "none"

CurrentMap ==
    [locations |-> locations, keyOrder |-> keyOrder, neighbours |-> neighbours]

SetMap(M) ==
    /\ locations' = M.locations
    /\ keyOrder' = M.keyOrder
    /\ neighbours' = M.neighbours

-----------------------------------------------------------------------------
(* dijkstra, one iteration of its loops at a time.                         *)

\* The items of a dict filled from a list: first occurrences, in order.
RECURSIVE DictKeys(_)
DictKeys(s) ==
    IF s = <<>> THEN <<>>
    ELSE LET front == DictKeys(SubSeq(s, 1, Len(s) - 1))
             x == s[Len(s)]
         IN  IF InList(x, front) THEN front ELSE Append(front, x)

\* Lines 177-186 look up both end points of every neighbour entry.
GraphKeyError(M) ==
    \E loc \in DOMAIN M.neighbours :
        \E i \in 1..Len(M.neighbours[loc]) :
            \/ loc \notin DOMAIN M.locations
            \/ M.neighbours[loc][i] \notin DOMAIN M.locations

\* Lines 174-186: graph[loc_name][neighbour_name] = distance, kept as the
\* items <<neighbour_name, distance>> of graph[loc_name] in dict order.
BuildGraph(M) ==
    [loc \in DOMAIN M.neighbours |->
        LET keys == DictKeys(M.neighbours[loc])
        IN  [i \in 1..Len(keys) |->
                <<keys[i], calculate_distance(M.locations[loc], M.locations[keys[i]])>>]]

\* A bug that orders the heap entries by name alone.
EntryLess_byname(e, f) == NameRank(e[2]) < NameRank(f[2])

\* Tuple order of heap entries: by distance, then by name.
EntryLess(e, f) ==
    \/ e[1] < f[1]
    \/ e[1] = f[1] /\ NameRank(e[2]) < NameRank(f[2])

\* A bug that pops the entry pushed last instead of the smallest one.
HeapMinIndex_lifo(q) == Len(q)

\* heapq.heappop returns a smallest entry.
HeapMinIndex(q) ==
    CHOOSE i \in 1..Len(q) :
        /\ \A j \in 1..Len(q) : ~EntryLess(q[j], q[i])
        /\ \A j \in 1..(i - 1) : EntryLess(q[i], q[j])

\* A bug that also relaxes when the tentative distance is equal.
Improves_leq(alt_distance, best) == alt_distance <= best

\* A bug that relaxes without comparing with the best known distance.
Improves_always(alt_distance, best) == TRUE

\* Line 216: if alt_distance < distances[neighbor].
Improves(alt_distance, best) == alt_distance < best

\* A bug that records the start as the parent of every improved neighbour.
RECURSIVE Relax_parentstart(_, _, _, _)
Relax_parentstart(S, items, current_distance, current_node) ==
    IF items = <<>> \/ S.raised # "none" THEN S
    ELSE LET neighbor == Head(items)[1]
             weight == Head(items)[2]
             alt_distance == current_distance + weight
         IN  IF neighbor \notin DOMAIN S.distances
             THEN [S EXCEPT !.raised = "KeyError"]
             ELSE IF Improves(alt_distance, S.distances[neighbor])
             THEN Relax_parentstart(
                        [distances |-> DictPut(S.distances, neighbor, alt_distance),
                         parent    |-> DictPut(S.parent, neighbor, start),
                         queue     |-> Append(S.queue, <<alt_distance, neighbor>>),
                         raised    |-> "none"],
                        Tail(items), current_distance, current_node)
             ELSE Relax_parentstart(S, Tail(items), current_distance, current_node)

\* Lines 214-219: the for loop over graph[current_node].items().
RECURSIVE Relax(_, _, _, _)
Relax(S, items, current_distance, current_node) ==
    IF items = <<>> \/ S.raised # "none" THEN S
    ELSE LET neighbor == Head(items)[1]
             weight == Head(items)[2]
             alt_distance == current_distance + weight
         IN  IF neighbor \notin DOMAIN S.distances
             THEN [S EXCEPT !.raised = "KeyError"]
             ELSE IF Improves(alt_distance, S.distances[neighbor])
             THEN Relax([distances |-> DictPut(S.distances, neighbor, alt_distance),
                         parent    |-> DictPut(S.parent, neighbor, current_node),
                         queue     |-> Append(S.queue, <<alt_distance, neighbor>>),
                         raised    |-> "none"],
                        Tail(items), current_distance, current_node)
             ELSE Relax(S, Tail(items), current_distance, current_node)

\* A bug that leaves the start at its default distance.
InitialDistances_nostart(nodes, s) == [node \in nodes \cup {s} |-> Infinity]

\* Lines 188-189: every node of graph at infinity, then distances[start] = 0.
InitialDistances(nodes, s) == DictPut([node \in nodes |-> Infinity], s, 0)

\* parent.get(current)
ParentGet(p, n) == IF n \in DOMAIN p THEN p[n] ELSE None

Raise(exception) ==
    /\ pc' = "idle"
    /\ result' = [kind |-> exception, path |-> <<>>, cost |-> 0]

\* Lines 173-191: the call, up to the first test of the while loop.  The
\* locals of an earlier bfs call are gone.
DijkstraEnter(s, d) ==
    /\ pc = "idle"
    /\ root' = None
    /\ visited' = {}
    /\ enqueued' = <<>>
    /\ start' = s
    /\ destination' = d
    /\ current' = None
    /\ path' = <<>>
    /\ popped' = <<>>
    /\ IF GraphKeyError(CurrentMap)
       THEN /\ Raise("KeyError")
            /\ graph' = EmptyDict
            /\ distances' = EmptyDict
            /\ parent' = EmptyDict
            /\ queue' = <<>>
       ELSE /\ pc' = "loop"
            /\ result' = NoResult
            /\ graph' = BuildGraph(CurrentMap)
            /\ distances' = InitialDistances(DOMAIN neighbours, s)
            /\ parent' = DictPut(EmptyDict, s, None)
            /\ queue' = <<<<0, s>>>>
    /\ UNCHANGED <<mapVars, last, lastK>>

\* A call of dijkstra from outside the click session.
DijkstraCall(s, d) ==
    /\ handler = "ready"
    /\ DijkstraEnter(s, d)
    /\ earlier' = NoResult
    /\ UNCHANGED appVars

\* Line 194 with an empty queue: the function ends without a return statement.
DijkstraExhausted ==
    /\ pc = "loop"
    /\ queue = <<>>
    /\ pc' = "idle"
    /\ result' = [kind |-> "None", path |-> <<>>, cost |-> 0]
    /\ UNCHANGED <<mapVars, last, lastK, bfsVars, earlier, appVars,
                   start, destination, graph, distances, parent,
                   queue, current, path, popped>>

\* Lines 197-201: the popped node is the destination.
DijkstraFound ==
    /\ pc = "loop"
    /\ queue # <<>>
    /\ LET i == HeapMinIndex(queue)
       IN  /\ queue[i][2] = destination
           /\ queue' = RemoveAt(queue, i)
           /\ popped' = Append(popped, <<queue[i][1], queue[i][2], "found">>)
    /\ path' = <<>>
    /\ current' = destination
    /\ pc' = "walk"
    /\ UNCHANGED <<mapVars, last, lastK, bfsVars, earlier, appVars,
                   start, destination, graph, distances, parent,
                   result>>

\* Lines 210-211: the popped entry is larger than the best known distance.
DijkstraSkip ==
    /\ pc = "loop"
    /\ queue # <<>>
    /\ LET i == HeapMinIndex(queue)
       IN  /\ queue[i][2] # destination
           /\ queue[i][1] > distances[queue[i][2]]
           /\ queue' = RemoveAt(queue, i)
           /\ popped' = Append(popped, <<queue[i][1], queue[i][2], "stale">>)
    /\ UNCHANGED <<mapVars, last, lastK, bfsVars, earlier, appVars,
                   pc, start, destination, graph, distances,
                   parent, current, path, result>>

\* Line 214 for a popped node that is no key of graph.
DijkstraKeyError ==
    /\ pc = "loop"
    /\ queue # <<>>
    /\ LET i == HeapMinIndex(queue)
       IN  /\ queue[i][2] # destination
           /\ ~(queue[i][1] > distances[queue[i][2]])
           /\ queue[i][2] \notin DOMAIN graph
           /\ queue' = RemoveAt(queue, i)
           /\ popped' = Append(popped, <<queue[i][1], queue[i][2], "raised">>)
    /\ Raise("KeyError")
    /\ UNCHANGED <<mapVars, last, lastK, bfsVars, earlier, appVars,
                   start, destination, graph, distances, parent,
                   current, path>>

\* Lines 214-219: the popped node is expanded.
DijkstraExpand ==
    /\ pc = "loop"
    /\ queue # <<>>
    /\ LET i == HeapMinIndex(queue)
           current_distance == queue[i][1]
           current_node == queue[i][2]
       IN  /\ current_node # destination
           /\ ~(current_distance > distances[current_node])
           /\ current_node \in DOMAIN graph
           /\ popped' = Append(popped, <<queue[i][1], queue[i][2], "expanded">>)
           /\ LET S == Relax([distances |-> distances, parent |-> parent,
                              queue |-> RemoveAt(queue, i), raised |-> "none"],
                             graph[current_node], current_distance, current_node)
              IN  /\ distances' = S.distances
                  /\ parent' = S.parent
                  /\ queue' = S.queue
                  /\ IF S.raised = "none"
                     THEN UNCHANGED <<pc, result>>
                     ELSE Raise(S.raised)
    /\ UNCHANGED <<mapVars, last, lastK, bfsVars, earlier, appVars,
                   start, destination, graph, current, path>>

\* Lines 202-204: one step of the walk along the parent pointers.
DijkstraWalk ==
    /\ pc = "walk"
    /\ current # None
    /\ path' = Append(path, current)
    /\ current' = ParentGet(parent, current)
    /\ UNCHANGED <<mapVars, last, lastK, bfsVars, earlier, appVars,
                   pc, start, destination, graph, distances,
                   parent, queue, popped, result>>

\* A bug that returns the path as walked, destination first.
ReturnedPath_unreversed(p) == p

\* Line 205: path.reverse().
ReturnedPath(p) == Reverse(p)

\* Lines 205-206: return path, distances[destination].
DijkstraReturn ==
    /\ pc = "walk"
    /\ current = None
    /\ pc' = "idle"
    /\ result' = [kind |-> "tuple", path |-> ReturnedPath(path),
                  cost |-> distances[destination]]
    /\ UNCHANGED <<mapVars, last, lastK, bfsVars, earlier, appVars,
                   start, destination, graph, distances, parent,
                   queue, current, path, popped>>

-----------------------------------------------------------------------------
(* bfs, lines 225-244, one loop iteration at a time.  It shares the names  *)
(* of its locals queue, parent, path and current with dijkstra.            *)

\* A bug that reads the neighbour list with setdefault, which adds the key.
NeighboursGet_setdefault(nb, vertex) ==
    [value |-> IF vertex \in DOMAIN nb THEN nb[vertex] ELSE <<>>,
     dict |-> IF vertex \in DOMAIN nb THEN nb ELSE DictPut(nb, vertex, <<>>)]

\* Line 240: self.neighbours.get(vertex, []) gives the list of vertex, or an
\* empty list, and leaves the dictionary as it is.
NeighboursGet(nb, vertex) ==
    [value |-> IF vertex \in DOMAIN nb THEN nb[vertex] ELSE <<>>,
     dict |-> nb]

\* Line 231: queue.popleft().
PopLeft(q) == [vertex |-> Head(q), rest |-> Tail(q)]

\* A bug that appends every neighbour to the queue, visited or not.
Visit_revisit(S, nbrs, vertex) ==
    [S EXCEPT !.visited = S.visited \cup {nbrs[i] : i \in 1..Len(nbrs)},
              !.parent = [n \in DOMAIN S.parent \cup {nbrs[i] : i \in 1..Len(nbrs)} |->
                            IF n \in DOMAIN S.parent THEN S.parent[n] ELSE vertex],
              !.queue = S.queue \o nbrs,
              !.enqueued = S.enqueued \o nbrs]

\* A bug that sets the parent of a neighbour that was visited before.
Visit_reparent(S, nbrs, vertex) ==
    [S EXCEPT !.parent =
        [n \in DOMAIN S.parent \cup {nbrs[i] : i \in 1..Len(nbrs)} |->
            IF InList(n, nbrs) /\ n # vertex /\ S.parent[vertex] # n
            THEN vertex ELSE S.parent[n]],
     !.visited = S.visited \cup {nbrs[i] : i \in 1..Len(nbrs)},
     !.queue = S.queue \o SelectSeq(nbrs, LAMBDA n : n \notin S.visited),
     !.enqueued = S.enqueued \o SelectSeq(nbrs, LAMBDA n : n \notin S.visited)]

\* Lines 240-244: every neighbour not yet visited is marked, given vertex as
\* its parent and appended to the queue.  S = [visited, parent, queue,
\* enqueued].
RECURSIVE Visit(_, _, _)
Visit(S, nbrs, vertex) ==
    IF nbrs = <<>> THEN S
    ELSE LET neighbour == Head(nbrs)
         IN  Visit(IF neighbour \notin S.visited
                   THEN [visited |-> S.visited \cup {neighbour},
                         parent |-> DictPut(S.parent, neighbour, vertex),
                         queue |-> Append(S.queue, neighbour),
                         enqueued |-> Append(S.enqueued, neighbour)]
                   ELSE S,
                   Tail(nbrs), vertex)

\* Lines 226-229: the call, up to the first test of the while loop.  The
\* locals of an earlier dijkstra call are gone.
BfsEnter(r, d) ==
    /\ pc = "idle"
    /\ root' = r
    /\ destination' = d
    /\ visited' = {r}
    /\ queue' = <<r>>
    /\ enqueued' = <<r>>
    /\ parent' = DictPut(EmptyDict, r, None)
    /\ current' = None
    /\ path' = <<>>
    /\ pc' = "bfs_loop"
    /\ result' = NoResult
    /\ start' = None
    /\ graph' = EmptyDict
    /\ distances' = EmptyDict
    /\ popped' = <<>>
    /\ UNCHANGED <<mapVars, last, lastK>>

BfsCall(r, d) ==
    /\ handler = "ready"
    /\ BfsEnter(r, d)
    /\ earlier' = NoResult
    /\ UNCHANGED appVars

\* Line 230 with an empty queue: the function ends without a return statement.
BfsExhausted ==
    /\ pc = "bfs_loop"
    /\ queue = <<>>
    /\ pc' = "idle"
    /\ result' = [kind |-> "None", path |-> <<>>, cost |-> 0]
    /\ UNCHANGED <<mapVars, last, lastK, earlier, appVars, bfsVars, start,
                   destination, graph, distances, parent, queue, current,
                   path, popped>>

\* Lines 231-233: the vertex taken from the queue is the destination.
BfsFound ==
    /\ pc = "bfs_loop"
    /\ queue # <<>>
    /\ PopLeft(queue).vertex = destination
    /\ queue' = PopLeft(queue).rest
    /\ path' = <<>>
    /\ current' = destination
    /\ pc' = "bfs_walk"
    /\ UNCHANGED <<mapVars, last, lastK, earlier, appVars, bfsVars, start,
                   destination, graph, distances, parent, popped, result>>

\* Lines 231 and 240-244: the vertex taken from the queue is visited.
BfsVisit ==
    /\ pc = "bfs_loop"
    /\ queue # <<>>
    /\ LET vertex == PopLeft(queue).vertex
           got == NeighboursGet(neighbours, vertex)
           S == Visit([visited |-> visited, parent |-> parent,
                       queue |-> PopLeft(queue).rest, enqueued |-> enqueued],
                      got.value, vertex)
       IN  /\ vertex # destination
           /\ neighbours' = got.dict
           /\ visited' = S.visited
           /\ parent' = S.parent
           /\ queue' = S.queue
           /\ enqueued' = S.enqueued
    /\ UNCHANGED <<locations, keyOrder, last, lastK, earlier, appVars, root, pc,
                   start, destination, graph, distances, current, path,
                   popped, result>>

\* Lines 235-237: one step of the walk along the parent pointers.
BfsWalk ==
    /\ pc = "bfs_walk"
    /\ current # None
    /\ path' = Append(path, current)
    /\ current' = ParentGet(parent, current)
    /\ UNCHANGED <<mapVars, last, lastK, earlier, appVars, bfsVars, pc, start,
                   destination, graph, distances, parent, queue, popped,
                   result>>

\* Lines 238-239: path.reverse(); return path.
BfsReturn ==
    /\ pc = "bfs_walk"
    /\ current = None
    /\ pc' = "idle"
    /\ result' = [kind |-> "list", path |-> Reverse(path), cost |-> 0]
    /\ UNCHANGED <<mapVars, last, lastK, earlier, appVars, bfsVars, start,
                   destination, graph, distances, parent, queue, current,
                   path, popped>>

-----------------------------------------------------------------------------
(* The calls that change the map. *)

RECURSIVE SumLen(_, _)
SumLen(d, keys) ==
    IF keys = {} THEN 0
    ELSE LET k == CHOOSE k \in keys : TRUE
         IN  Len(d[k]) + SumLen(d, keys \ {k})

\* The number of entries over all neighbour lists.
Links(nb) == SumLen(nb, DOMAIN nb)

SearchIdle ==
    /\ pc = "idle"
    /\ start = None
    /\ destination = None
    /\ graph = EmptyDict
    /\ distances = EmptyDict
    /\ parent = EmptyDict
    /\ queue = <<>>
    /\ current = None
    /\ path = <<>>
    /\ popped = <<>>
    /\ result = NoResult
    /\ root = None
    /\ visited = {}
    /\ enqueued = <<>>
    /\ earlier = NoResult

\* Lines 77-88 of app.py: the defaults of the session state.
SessionDefaults ==
    /\ start_click = NoneSeq
    /\ dest_click = NoneSeq
    /\ start_node = None
    /\ dest_node = None
    /\ route_path = NoneSeq
    /\ route_geo_m = NoneNumber
    /\ last_click_sig = NoneSeq
    /\ handler = "ready"

Init ==
    /\ locations = EmptyDict
    /\ keyOrder = <<>>
    /\ neighbours = EmptyDict
    /\ last = [op |-> "init", raised |-> "none", changed |-> FALSE]
    /\ lastK = None
    /\ SearchIdle
    /\ SessionDefaults

AddLocation(location) ==
    /\ pc = "idle"
    /\ \E M \in {add_location(CurrentMap, location)} :
          /\ SetMap(M)
          /\ last' = [op |-> "add_location", raised |-> "none",
                      changed |-> M # CurrentMap]
    /\ lastK' = None
    /\ UNCHANGED <<searchVars, appVars>>

AddNeighbours(location1, location2) ==
    /\ pc = "idle"
    /\ \E r \in {add_neighbours(CurrentMap, location1, location2)} :
          /\ Links(neighbours) < MaxLinks \/ r.map = CurrentMap
          /\ SetMap(r.map)
          /\ last' = [op |-> "add_neighbours", raised |-> r.raised,
                      changed |-> r.map # CurrentMap]
    /\ lastK' = None
    /\ UNCHANGED <<searchVars, appVars>>

ConnectNearestLoc(k) ==
    /\ pc = "idle"
    /\ Links(neighbours) < MaxLinks
    /\ \E r \in {connect_nearest_loc(CurrentMap, k)} :
          /\ SetMap(r.map)
          /\ last' = [op |-> "connect_nearest_loc", raised |-> r.raised,
                      changed |-> r.map # CurrentMap]
    /\ lastK' = k
    /\ UNCHANGED <<searchVars, appVars>>

Next ==
    \/ \E location \in Objects : AddLocation(location)
    \/ \E location1, location2 \in NeighbourArgs : AddNeighbours(location1, location2)
    \/ \E k \in -1..MaxK : ConnectNearestLoc(k)

Spec == Init /\ [][Next]_vars

-----------------------------------------------------------------------------
(* Route searches over maps built the way Sample_Data builds one: the      *)
(* locations are added in a list's order, then the neighbours are added.   *)

RECURSIVE AddLocations(_, _)
AddLocations(M, cities) ==
    IF cities = <<>> THEN M
    ELSE AddLocations(add_location(M, Head(cities)), Tail(cities))

\* add_neighbours for the pairs of the list that are in edges, in list order.
RECURSIVE AddEdges(_, _, _)
AddEdges(M, pairs, edges) ==
    IF pairs = <<>> THEN M
    ELSE AddEdges(IF Head(pairs) \in edges
                  THEN add_neighbours(M, M.locations[Head(pairs)[1]],
                                      M.locations[Head(pairs)[2]]).map
                  ELSE M,
                  Tail(pairs), edges)

\* The sides of the square, its two diagonals, and a loop at N1 and at N3.
PairList ==
    << <<"N1", "N2">>, <<"N2", "N3">>, <<"N3", "N4">>, <<"N4", "N1">>,
       <<"N1", "N3">>, <<"N2", "N4">>, <<"N1", "N1">>, <<"N3", "N3">> >>

CityLists ==
    { SubSeq(<<Location("N1", 0, 0), Location("N2", 0, 1), n3, Location("N4", 1, 0)>>,
             1, n) :
        n \in 0..4, n3 \in {Location("N3", 1, 1), Location("N3", 0, 1)} }

CityNames(cities) == {cities[i].name : i \in 1..Len(cities)}

EdgeSets(cities) ==
    { E \in SUBSET { PairList[i] : i \in 1..Len(PairList) } :
        /\ Cardinality(E) <= MaxEdges
        /\ \A e \in E : e[1] \in CityNames(cities) /\ e[2] \in CityNames(cities) }

BuiltMaps ==
    UNION { { AddEdges(AddLocations(EmptyMap, cities), PairList, E) :
                E \in EdgeSets(cities) } : cities \in CityLists }
    \cup { connect_nearest_loc(AddLocations(EmptyMap, cities), k).map :
                cities \in CityLists, k \in 1..MaxK }

RouteInit ==
    /\ \E M \in BuiltMaps :
          /\ locations = M.locations
          /\ keyOrder = M.keyOrder
          /\ neighbours = M.neighbours
    /\ last = [op |-> "init", raised |-> "none", changed |-> FALSE]
    /\ lastK = None
    /\ SearchIdle
    /\ SessionDefaults

RouteNext ==
    \/ \E s, d \in QueryNames : DijkstraCall(s, d)
    \/ DijkstraExhausted
    \/ DijkstraFound
    \/ DijkstraSkip
    \/ DijkstraKeyError
    \/ DijkstraExpand
    \/ DijkstraWalk
    \/ DijkstraReturn

RouteSpec == RouteInit /\ [][RouteNext]_vars

\* bfs alone, over the same maps.
BfsNext ==
    \/ \E r, d \in QueryNames : BfsCall(r, d)
    \/ BfsExhausted
    \/ BfsFound
    \/ BfsVisit
    \/ BfsWalk
    \/ BfsReturn

BfsSpec == RouteInit /\ [][BfsNext]_vars

\* The dijkstra call that has just returned or raised is made again.
DijkstraRepeat ==
    /\ handler = "ready"
    /\ result.kind # "none"
    /\ start # None
    /\ DijkstraEnter(start, destination)
    /\ earlier' = result
    /\ UNCHANGED appVars

\* The bfs call that has just returned is made again.
BfsRepeat ==
    /\ handler = "ready"
    /\ result.kind # "none"
    /\ root # None
    /\ BfsEnter(root, destination)
    /\ earlier' = result
    /\ UNCHANGED appVars

\* One step inside a search call: a loop iteration, a step of the parent walk
\* or the return.
SearchStep ==
    \/ DijkstraExhausted \/ DijkstraFound \/ DijkstraSkip \/ DijkstraKeyError
    \/ DijkstraExpand \/ DijkstraWalk \/ DijkstraReturn
    \/ BfsExhausted \/ BfsFound \/ BfsVisit \/ BfsWalk \/ BfsReturn

\* Both searches, one call on each built map.  (A call after another call
\* starts from the same map and fresh locals as a first call does.)
SearchNext ==
    \/ \E s, d \in QueryNames : result = NoResult /\ DijkstraCall(s, d)
    \/ \E r, d \in QueryNames : result = NoResult /\ BfsCall(r, d)
    \/ SearchStep

SearchSpec == RouteInit /\ [][SearchNext]_vars

\* Both searches, each call followed by the same call again.
RepeatNext ==
    \/ SearchNext
    \/ DijkstraRepeat
    \/ BfsRepeat

RepeatSpec == RouteInit /\ [][RepeatNext]_vars

-----------------------------------------------------------------------------
(* The click-to-route session of src/app.py.  Every run of the script      *)
(* handles one event: a click on the map, or one of the three buttons.     *)
(* Click coordinates are whole multiples of 1e-8 degree.                   *)

\* One degree, in the unit of the click coordinates.
Degree == 100000000

\* The maps of a session hold at most this many neighbour-list entries.
MaxAppLinks == 4

\* Two clicks that differ by less than 1e-7 degree, and two clicks apart.
ClickPool ==
    { <<0, 0>>, <<3, 0>>, <<0, Degree>>, <<Degree, Degree>> }

\* round(x, 7), line 180.
Round7(x) == ((x + 5) \div 10) * 10

\* The grid line nearest to a click coordinate, in degrees.
GridDegree(x) == (x + Degree \div 2) \div Degree

\* haversine, lines 44-53, in whole metres between points of the grid.
haversine(lon1, lat1, lon2, lat2) ==
    CASE lat1 = lat2 /\ lon1 = lon2 -> 0
      [] lat1 = lat2 /\ lon1 # lon2 -> IF lat1 = 0 THEN 111195 ELSE 111178
      [] lat1 # lat2 /\ lon1 = lon2 -> 111195
      [] OTHER -> 157249

\* path_distance_meters, lines 56-67.
RECURSIVE path_distance_meters(_, _)
path_distance_meters(M, p) ==
    IF Len(p) < 2 THEN 0
    ELSE haversine(M.locations[p[1]].long, M.locations[p[1]].lat,
                   M.locations[p[2]].long, M.locations[p[2]].lat)
         + path_distance_meters(M, Tail(p))

\* The squared planar-approximate distance between points of the grid, in
\* 1e-4 square degrees.
PlanarSquared(lat1, lon1, lat2, lon2) ==
    CASE lat1 = lat2 /\ lon1 = lon2 -> 0
      [] lat1 = lat2 /\ lon1 # lon2 -> IF lat1 = 0 THEN 10000 ELSE 9997
      [] lat1 # lat2 /\ lon1 = lon2 -> 10000
      [] OTHER -> 19999

\* m.nearest_node(lat, lon): the nodes no other node is nearer than; on a
\* map without nodes the call fails, which None stands for.
nearest_node(M, lat, lon) ==
    IF DOMAIN M.locations = {} THEN {None}
    ELSE LET d(n) == PlanarSquared(GridDegree(lat), GridDegree(lon),
                                   M.locations[n].lat, M.locations[n].long)
         IN  {n \in DOMAIN M.locations : \A o \in DOMAIN M.locations : d(n) <= d(o)}

\* st.session_state without last_click_sig, as a record.
Session ==
    [start_click |-> start_click, dest_click |-> dest_click,
     start_node |-> start_node, dest_node |-> dest_node,
     route_path |-> route_path, route_geo_m |-> route_geo_m]

SetSession(S) ==
    /\ start_click' = S.start_click
    /\ dest_click' = S.dest_click
    /\ start_node' = S.start_node
    /\ dest_node' = S.dest_node
    /\ route_path' = S.route_path
    /\ route_geo_m' = S.route_geo_m

\* A bug that leaves the stored route in place.
reset_points_keeproute(S) ==
    [start_click |-> NoneSeq, dest_click |-> NoneSeq, start_node |-> None,
     dest_node |-> None, route_path |-> S.route_path,
     route_geo_m |-> S.route_geo_m]

\* reset_points, lines 91-98 (last_click_sig is cleared by the action).
reset_points(S) ==
    [start_click |-> NoneSeq, dest_click |-> NoneSeq, start_node |-> None,
     dest_node |-> None, route_path |-> NoneSeq, route_geo_m |-> NoneNumber]

\* A bug that lets every later click move the destination.
ensure_points_from_click_moving(S, lat, lon, node) ==
    IF S.start_click = NoneSeq
    THEN IF node = None
         THEN [S EXCEPT !.start_click = <<lat, lon>>]
         ELSE [S EXCEPT !.start_click = <<lat, lon>>, !.start_node = node,
                        !.route_path = NoneSeq, !.route_geo_m = NoneNumber]
    ELSE IF node = None
         THEN [S EXCEPT !.dest_click = <<lat, lon>>]
         ELSE [S EXCEPT !.dest_click = <<lat, lon>>, !.dest_node = node,
                        !.route_path = NoneSeq, !.route_geo_m = NoneNumber]

\* ensure_points_from_click, lines 101-116; node is what nearest_node
\* returned, or None when it failed, which ends the function at that line.
ensure_points_from_click(S, lat, lon, node) ==
    IF S.start_click = NoneSeq
    THEN IF node = None
         THEN [S EXCEPT !.start_click = <<lat, lon>>]
         ELSE [S EXCEPT !.start_click = <<lat, lon>>, !.start_node = node,
                        !.route_path = NoneSeq, !.route_geo_m = NoneNumber]
    ELSE IF S.dest_click = NoneSeq
         THEN IF node = None
              THEN [S EXCEPT !.dest_click = <<lat, lon>>]
              ELSE [S EXCEPT !.dest_click = <<lat, lon>>, !.dest_node = node,
                             !.route_path = NoneSeq, !.route_geo_m = NoneNumber]
         ELSE S

\* No handler is running.
Ready == handler = "ready" /\ pc = "idle"

\* Lines 176-184: a click the script has not seen yet.
Click(lat, lon) ==
    /\ Ready
    /\ <<Round7(lat), Round7(lon)>> # last_click_sig
    /\ last_click_sig' = <<Round7(lat), Round7(lon)>>
    /\ \E node \in nearest_node(CurrentMap, lat, lon) :
          SetSession(ensure_points_from_click(Session, lat, lon, node))
    /\ UNCHANGED <<mapVars, last, lastK, searchVars, handler>>

\* Lines 121-123: the button Reset points.
ResetPoints ==
    /\ Ready
    /\ SetSession(reset_points(Session))
    /\ last_click_sig' = NoneSeq
    /\ UNCHANGED <<mapVars, last, lastK, searchVars, handler>>

\* Lines 125-129 and 187-196: the button Compute route, enabled when both
\* nodes are set, up to the call of dijkstra; s == t only shows a warning.
ComputeRoute ==
    /\ Ready
    /\ start_node # None /\ dest_node # None
    /\ IF start_node = dest_node
       THEN UNCHANGED vars
       ELSE /\ DijkstraEnter(start_node, dest_node)
            /\ handler' = "compute"
            /\ UNCHANGED <<earlier, start_click, dest_click, start_node,
                           dest_node, route_path, route_geo_m, last_click_sig>>

\* Line 196: one step of the dijkstra call the handler waits for.
ComputeStep ==
    /\ handler = "compute"
    /\ \/ DijkstraExhausted \/ DijkstraFound \/ DijkstraSkip
       \/ DijkstraKeyError \/ DijkstraExpand \/ DijkstraWalk
       \/ DijkstraReturn

\* The locals of the finished dijkstra call are gone.
ForgetSearch ==
    /\ start' = None
    /\ destination' = None
    /\ graph' = EmptyDict
    /\ distances' = EmptyDict
    /\ parent' = EmptyDict
    /\ queue' = <<>>
    /\ current' = None
    /\ path' = <<>>
    /\ popped' = <<>>
    /\ result' = NoResult

\* Lines 196-203: dijkstra has returned or raised.  Unpacking None raises
\* TypeError and a KeyError passes through; both end the run with the
\* session as it was.
ComputeStore ==
    /\ handler = "compute"
    /\ pc = "idle"
    /\ result.kind # "none"
    /\ handler' = "ready"
    /\ IF result.kind = "tuple" /\ result.path # <<>>
       THEN /\ route_path' = result.path
            /\ route_geo_m' = path_distance_meters(CurrentMap, result.path)
       ELSE UNCHANGED <<route_path, route_geo_m>>
    /\ ForgetSearch
    /\ UNCHANGED <<mapVars, last, lastK, pc, bfsVars, earlier, start_click,
                   dest_click, start_node, dest_node, last_click_sig>>

\* Lines 228-234: the button Clear route, shown while a route is stored.
ClearRoute ==
    /\ Ready
    /\ route_path # NoneSeq
    /\ route_path' = NoneSeq
    /\ route_geo_m' = NoneNumber
    /\ UNCHANGED <<mapVars, last, lastK, searchVars, handler, start_click,
                   dest_click, start_node, dest_node, last_click_sig>>

AppMaps == {M \in BuiltMaps : Links(M.neighbours) <= MaxAppLinks}

AppInit ==
    /\ \E M \in AppMaps :
          /\ locations = M.locations
          /\ keyOrder = M.keyOrder
          /\ neighbours = M.neighbours
    /\ last = [op |-> "init", raised |-> "none", changed |-> FALSE]
    /\ lastK = None
    /\ SearchIdle
    /\ SessionDefaults

AppNext ==
    \/ \E c \in ClickPool : Click(c[1], c[2])
    \/ ResetPoints
    \/ ComputeRoute
    \/ ComputeStep
    \/ ComputeStore
    \/ ClearRoute

AppSpec == AppInit /\ [][AppNext]_vars

-----------------------------------------------------------------------------
(* What the claims speak of. *)

Nodes == DOMAIN neighbours

Edge(u, v) == u \in DOMAIN neighbours /\ InList(v, neighbours[u])

\* The weight dijkstra gives the edge from u to v.
Weight(u, v) == calculate_distance(locations[u], locations[v])

\* A call of dijkstra has returned or raised, and no call is running.
Done == pc = "idle" /\ result.kind # "none"

Returned == Done /\ result.kind = "tuple"

\* The nodes joined to the nodes of S by some path.
RECURSIVE ReachFrom(_)
ReachFrom(S) ==
    LET T == S \cup {v \in Nodes : \E u \in S : Edge(u, v)}
    IN  IF T = S THEN S ELSE ReachFrom(T)

Connected(a, b) == a \in Nodes /\ b \in ReachFrom({a})

MinOf(S) == CHOOSE x \in S : \A y \in S : x <= y

\* The least summed weight of a path from a with at most k edges, per node.
RECURSIVE Cheapest(_, _)
Cheapest(a, k) ==
    IF k = 0 THEN [v \in Nodes |-> IF v = a THEN 0 ELSE Infinity]
    ELSE LET prev == Cheapest(a, k - 1)
         IN  [v \in Nodes |->
                MinOf({prev[v]} \cup
                      {prev[u] + Weight(u, v) : u \in {x \in Nodes :
                                                   prev[x] < Infinity /\ Edge(x, v)}})]

\* The minimum over all paths from a to b of the summed edge weights.
MinCost(a, b) == Cheapest(a, Cardinality(Nodes))[b]

\* The summed edge weights over the consecutive pairs of a path.
RECURSIVE PathCost(_)
PathCost(p) ==
    IF Len(p) < 2 THEN 0
    ELSE PathCost(SubSeq(p, 1, Len(p) - 1)) + Weight(p[Len(p) - 1], p[Len(p)])

\* The square of the concrete scenario: N1(0,0), N2(0,1), N3(1,1), N4(1,0),
\* its four sides and the diagonal N1-N3.
SquareEdges ==
    { <<"N1", "N2">>, <<"N2", "N3">>, <<"N3", "N4">>, <<"N4", "N1">>,
      <<"N1", "N3">> }

IsSquare ==
    /\ Nodes = Names
    /\ \A n \in Names : locations[n] \in
          { Location("N1", 0, 0), Location("N2", 0, 1), Location("N3", 1, 1),
            Location("N4", 1, 0) }
    /\ \A u, v \in Names :
          Edge(u, v) <=> (<<u, v>> \in SquareEdges \/ <<v, u>> \in SquareEdges)

-----------------------------------------------------------------------------
(* The claims. *)

C2_PathMatchesTotal ==
    (Done /\ Connected(start, destination))
        => /\ result.kind = "tuple"
           /\ Len(result.path) >= 1
           /\ result.path[1] = start
           /\ result.path[Len(result.path)] = destination
           /\ PathCost(result.path) = result.cost

C2_Witness ==
    /\ Returned /\ Connected(start, destination)
    /\ Len(result.path) = 3 /\ result.path[1] # result.path[3]
    /\ result.cost > 0

\* C3 as stated: for two nodes of the graph with no connecting path the
\* search returns an empty path and an infinite cost.
C3_NotFoundValue ==
    (Done /\ start \in Nodes /\ destination \in Nodes
          /\ ~Connected(start, destination))
        => /\ result.kind = "tuple"
           /\ result.path = <<>>
           /\ result.cost = Infinity

\* C4 as stated: with a start or a goal that is no node of the graph the
\* search expands no node, raises nothing and returns not-found.
C4_UnknownNodeNotFound ==
    (start # None /\ (start \notin Nodes \/ destination \notin Nodes))
        => /\ \A i \in 1..Len(popped) : popped[i][3] # "expanded"
           /\ Done => /\ result.kind = "tuple"
                      /\ result.path = <<>>
                      /\ result.cost = Infinity

\* C5: the search from a node to itself returns the path [a] with total 0.
C5_SelfRoute ==
    (Done /\ start \in Nodes /\ destination = start)
        => /\ result.kind = "tuple"
           /\ result.path = <<start>>
           /\ result.cost = 0

C5_Witness ==
    /\ Returned /\ start \in Nodes /\ destination = start
    /\ neighbours[start] # <<>>

\* C6: a returned path that is not empty has every consecutive pair joined
\* by an entry of the neighbour lists, v in the list of u.
C6_PathAlongEdges ==
    (Returned /\ result.path # <<>>)
        => /\ Len(result.path) >= 1
           /\ \A i \in 1..(Len(result.path) - 1) :
                 /\ result.path[i] \in DOMAIN neighbours
                 /\ InList(result.path[i + 1], neighbours[result.path[i]])

C6_Witness ==
    /\ Returned /\ Len(result.path) = 4
    /\ ~Edge(result.path[1], result.path[3])
    /\ ~Edge(result.path[1], result.path[4])

\* The weight dijkstra gives the entry v of the neighbour list of u in map M.
GraphWeight(M, u, v) ==
    LET items == BuildGraph(M)[u]
    IN  items[CHOOSE i \in 1..Len(items) : items[i][1] = v][2]

\* C7 as stated: add_neighbours with an end point that is absent from the
\* map raises nothing and leaves the locations and every neighbour list
\* unchanged.
C7_FailsSilently ==
    [][\A location1, location2 \in LocationPool :
          (/\ AddNeighbours(location1, location2)
           /\ (location1.name \notin Nodes \/ location2.name \notin Nodes))
             => (last'.raised = "none" /\ UNCHANGED mapVars)]_vars

\* C8: in every state the calls reach, add_neighbours between two existing
\* nodes u and v raises nothing and leaves v in the neighbour list of u
\* exactly once and u in the list of v exactly once, with the weight of
\* (u, v) equal to the weight of (v, u): however often and in whichever
\* argument order the call was made before, u = v included.
C8_MirroredOnce ==
    \A location1, location2 \in LocationPool :
        (location1.name \in Nodes /\ location2.name \in Nodes)
           => \A r \in {add_neighbours(CurrentMap, location1, location2)} :
                 /\ r.raised = "none"
                 /\ Count(location2.name, r.map.neighbours[location1.name]) = 1
                 /\ Count(location1.name, r.map.neighbours[location2.name]) = 1
                 /\ GraphWeight(r.map, location1.name, location2.name)
                       = GraphWeight(r.map, location2.name, location1.name)

\* The last call repeated an insertion; a loop and an edge between two
\* nodes with a positive weight are in the lists.
C8_Witness ==
    /\ last = [op |-> "add_neighbours", raised |-> "none", changed |-> FALSE]
    /\ \E u \in Nodes : Edge(u, u)
    /\ \E u, v \in Nodes : u # v /\ Edge(u, v) /\ Edge(v, u) /\ Weight(u, v) > 0

\* C9: in every state the calls reach, add_location of a new name creates
\* its coordinate entry and an empty neighbour list; add_location of an
\* existing name overwrites its coordinate and leaves its neighbour list
\* alone; either way every other node keeps its coordinate and its neighbour
\* list, and adding the same Location once more changes nothing.
C9_AddLocationIdempotent ==
    \A location \in LocationPool :
        \A M \in {add_location(CurrentMap, location)} :
            /\ DOMAIN M.locations = DOMAIN locations \cup {location.name}
            /\ DOMAIN M.neighbours = DOMAIN neighbours \cup {location.name}
            /\ M.locations[location.name] = location
            /\ location.name \notin DOMAIN locations
                  => /\ M.neighbours[location.name] = <<>>
                     /\ M.keyOrder = Append(keyOrder, location.name)
            /\ location.name \in DOMAIN locations
                  => /\ M.neighbours[location.name] = neighbours[location.name]
                     /\ M.keyOrder = keyOrder
            /\ \A n \in DOMAIN locations \ {location.name} :
                  /\ M.locations[n] = locations[n]
                  /\ M.neighbours[n] = neighbours[n]
            /\ add_location(M, location) = M

\* N3 is the only node, it has a neighbour, and the last call moved it.
C9_Witness ==
    /\ last = [op |-> "add_location", raised |-> "none", changed |-> TRUE]
    /\ keyOrder = <<"N3">>
    /\ neighbours["N3"] # <<>>

\* C10: every name that is a key of neighbours or stands in a neighbour list
\* has an entry in locations.
C10_NamesHaveCoordinates ==
    \A n \in DOMAIN neighbours :
        /\ n \in DOMAIN locations
        /\ \A i \in 1..Len(neighbours[n]) : neighbours[n][i] \in DOMAIN locations

\* An insertion has just failed on a map that connect_nearest_loc filled.
C10_Witness ==
    /\ last = [op |-> "add_neighbours", raised |-> "ValueError", changed |-> FALSE]
    /\ Cardinality(DOMAIN locations) = 3
    /\ \A n \in DOMAIN neighbours : Len(neighbours[n]) = 2

-----------------------------------------------------------------------------
\* C11: no step of a route search, dijkstra or bfs, changes the locations or
\* any neighbour list, whether the call returns a path, returns None or
\* raises; and a call that repeats the call before it ends with the same
\* result.
C11_SearchLeavesMap ==
    [][/\ mapVars' = mapVars
       /\ pc' = "idle" /\ earlier' # NoResult => result' = earlier']_vars

\* A repeated bfs call has returned a path of two edges, as the call before
\* it did.
C11_Witness ==
    /\ pc = "idle"
    /\ earlier # NoResult
    /\ result = earlier
    /\ root # None
    /\ Len(result.path) = 3

-----------------------------------------------------------------------------
\* C12: every search call runs to completion.  While a call runs, a next
\* step is always possible, and the steps are bounded: every iteration of
\* dijkstra's loop pops one entry and at most one entry per neighbour link
\* is ever pushed after the first; every iteration of bfs's loop takes one
\* name from the queue and no name enters the queue twice; every step of the
\* parent walk adds one node to the path, no node twice, and a returned path
\* begins at the start.
C12_SearchTerminates ==
    /\ pc # "idle" => ENABLED SearchStep
    /\ pc \in {"loop", "walk"} =>
          /\ Len(popped) <= Links(neighbours) + 1
          /\ Len(popped) + Len(queue) <= Links(neighbours) + 1
    /\ pc \in {"bfs_loop", "bfs_walk"} =>
          /\ Len(enqueued) <= Cardinality(DOMAIN neighbours \cup {root})
          /\ \A i, j \in 1..Len(enqueued) : enqueued[i] = enqueued[j] => i = j
    /\ pc \in {"walk", "bfs_walk"} =>
          /\ \A i, j \in 1..Len(path) : path[i] = path[j] => i = j
          /\ \A i \in 1..Len(path) : path[i] \in DOMAIN parent
          /\ current = None => path[Len(path)] \in {start, root}
    /\ pc = "idle" /\ result.kind \in {"tuple", "list"} =>
          result.path[1] \in {start, root}

\* A dijkstra call that popped a stale entry on its way has emptied its
\* queue and ended.
C12_Witness ==
    /\ pc = "idle"
    /\ result.kind = "None"
    /\ queue = <<>>
    /\ \E i \in 1..Len(popped) : popped[i][3] = "stale"

-----------------------------------------------------------------------------
\* The node of the i-th popped entry was expanded by an earlier iteration.
ExpandedBefore(i) ==
    \E j \in 1..(i - 1) : popped[j][2] = popped[i][2] /\ popped[j][3] = "expanded"

\* C13: the test of line 210, popped distance > best known distance, skips
\* an entry exactly when its node was expanded before; so no node is
\* expanded twice in a call, and the distance of an expanded node stays the
\* distance it was popped with.
C13_StaleIffExpanded ==
    \A i \in 1..Len(popped) :
        /\ popped[i][3] = "stale" => ExpandedBefore(i)
        /\ popped[i][3] \in {"expanded", "raised"} => ~ExpandedBefore(i)
        /\ popped[i][3] = "expanded" => distances[popped[i][2]] = popped[i][1]

\* An entry was skipped as stale, and a node expanded before it has been
\* reached again by a later expansion.
C13_Witness ==
    /\ \E i \in 1..Len(popped) : popped[i][3] = "stale"
    /\ \E i, j \in 1..Len(popped) :
          /\ i < j
          /\ popped[i][3] = "expanded"
          /\ popped[j][3] = "expanded"
          /\ \E k \in 1..Len(graph[popped[j][2]]) :
                graph[popped[j][2]][k][1] = popped[i][2]

-----------------------------------------------------------------------------
\* The number of entries of the heap q that name n.
EntriesFor(q, n) == Cardinality({i \in 1..Len(q) : q[i][2] = n})

\* graph[u] has an item for n: n is a neighbour of u.
HasItem(u, n) == \E k \in 1..Len(graph[u]) : graph[u][k][1] = n

\* graph[u][n], the weight graph gives the edge from u to n.
ItemWeight(u, n) ==
    graph[u][CHOOSE k \in 1..Len(graph[u]) : graph[u][k][1] = n][2]

\* C14: an iteration of dijkstra's loop that expands the popped entry (d, u)
\* writes the distance and parent of a node n and pushes an entry for n
\* exactly when n is a neighbour of u and d + weight(u, n) is strictly
\* smaller than the distance n has; every other node keeps its distance and
\* parent and gets no entry; no other iteration writes or pushes anything.
\* So a node's distance only ever gets strictly smaller.
C14_StrictImprovement ==
    [][pc = "loop" =>
        IF popped' # popped /\ popped'[Len(popped')][3] = "expanded"
        THEN LET d == popped'[Len(popped')][1]
                 u == popped'[Len(popped')][2]
             IN  /\ DOMAIN distances' = DOMAIN distances
                 /\ \A n \in DOMAIN distances :
                       LET w == ItemWeight(u, n)
                       IN  IF HasItem(u, n) /\ d + w < distances[n]
                           THEN /\ distances'[n] = d + w
                                /\ distances'[n] < distances[n]
                                /\ ParentGet(parent', n) = u
                                /\ EntriesFor(queue', n) = EntriesFor(queue, n) + 1
                                /\ \E i \in 1..Len(queue') : queue'[i] = <<d + w, n>>
                           ELSE /\ distances'[n] = distances[n]
                                /\ ParentGet(parent', n) = ParentGet(parent, n)
                                /\ (n \in DOMAIN parent') = (n \in DOMAIN parent)
                                /\ EntriesFor(queue', n) =
                                      EntriesFor(queue, n) - (IF n = u THEN 1 ELSE 0)
        ELSE /\ distances' = distances
             /\ parent' = parent
             /\ \A n \in DOMAIN distances :
                   EntriesFor(queue', n) <= EntriesFor(queue, n)]_vars

\* The last iteration expanded a node u; it improved one neighbour and left
\* alone another whose distance equals the tentative one.
C14_Witness ==
    /\ pc = "loop"
    /\ popped # <<>>
    /\ popped[Len(popped)][3] = "expanded"
    /\ LET d == popped[Len(popped)][1]
           u == popped[Len(popped)][2]
       IN  /\ \E n \in DOMAIN distances :
                 /\ HasItem(u, n)
                 /\ n # u
                 /\ d + ItemWeight(u, n) = distances[n]
                 /\ ParentGet(parent, n) # u
           /\ \E n \in DOMAIN distances :
                 /\ HasItem(u, n)
                 /\ ParentGet(parent, n) = u
                 /\ distances[n] = d + ItemWeight(u, n)

-----------------------------------------------------------------------------
\* C15: within one call of dijkstra the distances of the popped entries,
\* skipped ones included, never decrease.
C15_PoppedNonDecreasing ==
    \A i, j \in 1..Len(popped) : i < j => popped[i][1] <= popped[j][1]

\* A call has popped four entries, one of them stale, at three different
\* distances.
C15_Witness ==
    /\ Len(popped) >= 4
    /\ \E i \in 1..Len(popped) : popped[i][3] = "stale"
    /\ Cardinality({popped[i][1] : i \in 1..Len(popped)}) >= 3

-----------------------------------------------------------------------------
\* C16: in every state the three building operations reach, every name in a
\* neighbour list has a list of its own that names the owner back, every
\* list belongs to a location, and check_invariants raises nothing.
C16_SymmetricClosed ==
    /\ \A a \in DOMAIN neighbours :
          /\ a \in DOMAIN locations
          /\ \A i \in 1..Len(neighbours[a]) :
                /\ neighbours[a][i] \in DOMAIN neighbours
                /\ InList(a, neighbours[neighbours[a][i]])
    /\ check_invariants(CurrentMap) = "none"

\* connect_nearest_loc has just linked a location to one that is not among
\* its own nearest: the lists of the two differ in length.
C16_Witness ==
    /\ last.op = "connect_nearest_loc"
    /\ last.changed
    /\ \E a, b \in DOMAIN neighbours :
          InList(b, neighbours[a]) /\ Len(neighbours[a]) > Len(neighbours[b])

-----------------------------------------------------------------------------
\* The bound of C20 for the argument k and n locations.
AtLeast(k, n) == Min(Max(k, 0), n - 1)

NoDuplicate(list) == \A i, j \in 1..Len(list) : list[i] = list[j] => i = j

\* C20 as stated: after connect_nearest_loc(k) on a map of n locations every
\* location has at least min(max(k, 0), n - 1) neighbours, none is its own
\* neighbour and no list holds a name twice.
C20_ConnectPostcondition ==
    last.op = "connect_nearest_loc" =>
        \A a \in DOMAIN neighbours :
            /\ Len(neighbours[a]) >= AtLeast(lastK, Len(keyOrder))
            /\ ~InList(a, neighbours[a])
            /\ NoDuplicate(neighbours[a])

\* C20, amended: after connect_nearest_loc(k) on a map of n locations every
\* location has at least min(max(k, 0), n - 1) neighbours other than itself
\* and no list holds a name twice; the call makes no location its own
\* neighbour, but one that was its own neighbour before the call still is.
C20_ConnectAddsOthers ==
    [][last'.op = "connect_nearest_loc" =>
        \A a \in DOMAIN neighbours' :
            /\ Cardinality({neighbours'[a][i] : i \in 1..Len(neighbours'[a])} \ {a})
                  >= AtLeast(lastK', Len(keyOrder'))
            /\ NoDuplicate(neighbours'[a])
            /\ InList(a, neighbours'[a]) =>
                  a \in DOMAIN neighbours /\ InList(a, neighbours[a])]_vars

\* connect_nearest_loc(2) has just added links to a map of three or more
\* locations, one of which was its own neighbour.
C20_Witness ==
    /\ last.op = "connect_nearest_loc"
    /\ last.changed
    /\ lastK >= 2
    /\ Len(keyOrder) >= 3
    /\ \E a \in DOMAIN neighbours : InList(a, neighbours[a])

-----------------------------------------------------------------------------
\* The least number of edges of a path from a node of S to b, counted from
\* k; b is reachable from S.
RECURSIVE HopsFrom(_, _, _)
HopsFrom(S, b, k) ==
    IF b \in S THEN k
    ELSE HopsFrom(S \cup {v \in Nodes : \E u \in S : Edge(u, v)}, b, k + 1)

\* C17: when destination is reachable from root, bfs returns a path that
\* begins at root, ends at destination, follows entries of the neighbour
\* lists and has the fewest edges of any such path; and while bfs runs no
\* name enters the queue twice and no parent pointer, once set, is written
\* again.
C17_BfsFewestEdges ==
    [][/\ pc \in {"bfs_loop", "bfs_walk"} =>
             /\ NoDuplicate(enqueued')
             /\ \A n \in DOMAIN parent :
                   n \in DOMAIN parent' /\ parent'[n] = parent[n]
             /\ \A n \in DOMAIN parent' \ DOMAIN parent :
                   Count(n, enqueued') = 1 /\ ~InList(n, enqueued)
       /\ (/\ pc' = "idle"
           /\ root' # None
           /\ root' = destination' \/ Connected(root', destination')) =>
             /\ result'.kind = "list"
             /\ result'.path # <<>>
             /\ result'.path[1] = root'
             /\ result'.path[Len(result'.path)] = destination'
             /\ \A i \in 1..(Len(result'.path) - 1) :
                   Edge(result'.path[i], result'.path[i + 1])
             /\ Len(result'.path) - 1 = HopsFrom({root'}, destination', 0)]_vars

\* bfs has returned a path of two edges on a map where a longer way to the
\* destination exists as well: the destination has two neighbours and the
\* call visited four names.
C17_Witness ==
    /\ pc = "idle"
    /\ root # None
    /\ result.kind = "list"
    /\ Len(result.path) = 3
    /\ Len(neighbours[destination]) >= 2
    /\ Cardinality(visited) >= 4

-----------------------------------------------------------------------------
\* The signature line 180 computes for a stored click.
SigOf(click) == <<Round7(click[1]), Round7(click[2])>>

\* The four stored points.
Points == <<start_click, start_node, dest_click, dest_node>>

\* C18: the script accepts a click when its signature differs from the last
\* one.  The first accepted click after a reset sets the start click and its
\* node and leaves the destination alone, the second sets the destination
\* click and its node and leaves the start alone, every later one changes
\* none of the four; no other step but reset_points, which clears all four,
\* changes them; so the destination is never set while the start is unset.
C18_ClicksInOrder ==
    [][/\ (dest_click' # NoneSeq \/ dest_node' # None) => start_click' # NoneSeq
       /\ IF last_click_sig' # last_click_sig /\ last_click_sig' # NoneSeq
          THEN IF start_click = NoneSeq
               THEN /\ start_click' # NoneSeq
                    /\ SigOf(start_click') = last_click_sig'
                    /\ start_node' # None \/ keyOrder = <<>>
                    /\ dest_click' = dest_click
                    /\ dest_node' = dest_node
               ELSE IF dest_click = NoneSeq
                    THEN /\ dest_click' # NoneSeq
                         /\ SigOf(dest_click') = last_click_sig'
                         /\ dest_node' # None \/ keyOrder = <<>>
                         /\ start_click' = start_click
                         /\ start_node' = start_node
                    ELSE Points' = Points
          ELSE \/ Points' = Points
               \/ /\ Points' = <<NoneSeq, None, NoneSeq, None>>
                  /\ last_click_sig' = NoneSeq]_vars

\* Start and destination are set from two clicks and a third click, at
\* another place, has been accepted since.
C18_Witness ==
    /\ start_click # NoneSeq
    /\ dest_click # NoneSeq
    /\ start_node # None
    /\ dest_node # None
    /\ last_click_sig # NoneSeq
    /\ last_click_sig # SigOf(start_click)
    /\ last_click_sig # SigOf(dest_click)

-----------------------------------------------------------------------------
\* C19: whatever the order of clicks and of the buttons Reset points, Compute
\* route and Clear route, a route is stored only while both nodes are set and
\* differ, it leads from the stored start node to the stored destination
\* node, it was stored as the path dijkstra returned for exactly these two
\* nodes, and the nodes do not change while it stays stored.
C19_RouteForStoredNodes ==
    [][/\ route_path' # NoneSeq =>
             /\ start_node' # None
             /\ dest_node' # None
             /\ start_node' # dest_node'
             /\ route_path'[1] = start_node'
             /\ route_path'[Len(route_path')] = dest_node'
             /\ route_geo_m' # NoneNumber
       /\ (route_path' # NoneSeq /\ route_path' # route_path) =>
             /\ route_path = NoneSeq
             /\ result.kind = "tuple"
             /\ route_path' = result.path
             /\ start = start_node'
             /\ destination = dest_node'
       /\ (route_path' # NoneSeq /\ route_path # NoneSeq) =>
             /\ start_node' = start_node
             /\ dest_node' = dest_node]_vars

\* A route of two edges is stored, and a click at a third place has been
\* accepted since the two that set its end points.
C19_Witness ==
    /\ handler = "ready"
    /\ route_path # NoneSeq
    /\ Len(route_path) = 3
    /\ last_click_sig # SigOf(start_click)
    /\ last_click_sig # SigOf(dest_click)

-----------------------------------------------------------------------------
\* Following the parent pointers from n reaches start in at most k steps.
RECURSIVE ReachesStart(_, _)
ReachesStart(n, k) ==
    \/ n = start
    \/ /\ k > 0
       /\ n \in DOMAIN parent
       /\ parent[n] # None
       /\ ReachesStart(parent[n], k - 1)

\* C21: at every step of a dijkstra call the parent pointers form a tree
\* rooted at the start: the parent of the start is None; every other node n
\* with a parent has a parent p whose neighbour list names n, and the
\* distance of n is the distance of p plus the weight of the edge from p to
\* n; and the parent pointers lead from every such node to the start without
\* passing a node twice.
C21_ParentTree ==
    (start # None /\ DOMAIN parent # {}) =>
        /\ ParentGet(parent, start) = None
        /\ start \in DOMAIN parent
        /\ \A n \in DOMAIN parent \ {start} :
              LET p == parent[n]
              IN  /\ p # None
                  /\ p \in DOMAIN parent
                  /\ Edge(p, n)
                  /\ p \in DOMAIN graph
                  /\ HasItem(p, n)
                  /\ distances[n] = distances[p] + ItemWeight(p, n)
                  /\ ReachesStart(n, Cardinality(DOMAIN parent) - 1)

\* A call is in its loop with a node two edges from the start in the tree,
\* and with a node whose parent was replaced by a better one: an entry with
\* its earlier, larger distance is still in the queue.
C21_Witness ==
    /\ pc = "loop"
    /\ \E n \in DOMAIN parent : parent[n] \notin {None, start}
    /\ \E i \in 1..Len(queue) :
          /\ queue[i][2] \in DOMAIN parent
          /\ queue[i][1] > distances[queue[i][2]]

====
